---- MODULE Spec2Model ----
(***************************************************************************)
(* Model of WCA.py: the batch pipeline that joins a scraped competition    *)
(* roster against the WCA single-rank export, pivots every competitor's    *)
(* records into one wide row, rescales the "best" columns, orders columns  *)
(* and rows and writes the CSV report.                                     *)
(*                                                                         *)
(* Strings are TLA+ strings; a character is a one-character string.        *)
(* Numeric cells are held in tenths (an integer v is stored as 10*v), so   *)
(* that the one-decimal results of round(1) are exact integers.            *)
(***************************************************************************)
EXTENDS Integers, Sequences, FiniteSets, TLC

(* ------------------------------ bounds --------------------------------- *)
MaxRoster == 3
MaxRecords == 3

(* --------------------------- program constants ------------------------- *)
Divisor == 100

COMPETITION_ID == "TippingPointBloomsburg2025"
OUTPUT_FILE == COMPETITION_ID \o " competitor_rankings.csv"

(* ------------------------------ strings -------------------------------- *)
\* The characters used by the model, in code point order.
Alphabet == " #(),0123456789ABCDEFGHIJKLMNOPQRSTUVWXYZ_abcdefghijklmnopqrstuvwxyz"

\* The rank of every character in code point order.
CharCode ==
    [c \in {SubSeq(Alphabet, i, i) : i \in 1..Len(Alphabet)} |->
        CHOOSE i \in 1..Len(Alphabet) : SubSeq(Alphabet, i, i) = c]

Ord(c) == CharCode[c]

RECURSIVE StrLess(_, _)
\* Python's str "<": lexicographic by code point, a proper prefix is smaller.
StrLess(a, b) ==
    IF Len(b) = 0 THEN FALSE
    ELSE IF Len(a) = 0 THEN TRUE
    ELSE LET ca == Ord(SubSeq(a, 1, 1))
             cb == Ord(SubSeq(b, 1, 1))
         IN  IF ca < cb THEN TRUE
             ELSE IF ca > cb THEN FALSE
             ELSE StrLess(SubSeq(a, 2, Len(a)), SubSeq(b, 2, Len(b)))

\* Python's  sub in s
Contains(s, sub) ==
    \E i \in 1..(Len(s) - Len(sub) + 1) : SubSeq(s, i, i + Len(sub) - 1) = sub

EndsWith(s, suf) ==
    /\ Len(s) >= Len(suf)
    /\ SubSeq(s, Len(s) - Len(suf) + 1, Len(s)) = suf

ToSet(seq) == {seq[i] : i \in 1..Len(seq)}

IndexOf(seq, x) == CHOOSE i \in 1..Len(seq) : seq[i] = x

RECURSIVE Insert(_, _)
\* x put into the ascending list acc, after the elements equal to it.
Insert(acc, x) ==
    IF Len(acc) = 0 THEN <<x>>
    ELSE IF StrLess(x, Head(acc)) THEN <<x>> \o acc
    ELSE <<Head(acc)>> \o Insert(Tail(acc), x)

RECURSIVE sorted(_)
\* Python's sorted() on a list of strings (stable, ascending).
sorted(seq) ==
    IF Len(seq) = 0 THEN <<>>
    ELSE Insert(sorted(SubSeq(seq, 1, Len(seq) - 1)), seq[Len(seq)])

(* ------------------------------- cells --------------------------------- *)
Str(s) == [kind |-> "str", s |-> s, t |-> 0]
Num(v) == [kind |-> "num", s |-> "", t |-> 10 * v]
NaN == [kind |-> "nan", s |-> "", t |-> 0]

IsNaN(cell) == cell.kind = "nan"

(* ----------------------------- data frames ----------------------------- *)
\* A DataFrame: its column labels in order and its rows in order; a row maps
\* every column label to a cell.
DataFrame(cols, rws) == [columns |-> cols, rows |-> rws]

NoFrame == DataFrame(<<>>, <<>>)

(* ------------------------------- inputs -------------------------------- *)
None == <<>>
Some(id) == <<id>>

\* The rows the rank export can hold, in file order.
RefPool ==
    << [personId |-> "P1", eventId |-> "222",   best |-> 312,  worldRank |-> 5],
       [personId |-> "P2", eventId |-> "222",   best |-> 835,  worldRank |-> 101],
       [personId |-> "P1", eventId |-> "333",   best |-> 4512, worldRank |-> 10],
       [personId |-> "P2", eventId |-> "333",   best |-> 4625, worldRank |-> 10],
       [personId |-> "P1", eventId |-> "333",   best |-> 4700, worldRank |-> 12],
       [personId |-> "P2", eventId |-> "444",   best |-> 9999, worldRank |-> 100],
       [personId |-> "P2", eventId |-> "best1", best |-> 2050, worldRank |-> 150] >>

NamePool == <<"Alice", "Bob", "Carol", "Dave", "Eve">>

IdPool == {None, Some(""), Some("P1"), Some("P2")}

RECURSIVE Pick(_, _)
\* The rows of seq whose positions are in idx, in file order.
Pick(seq, idx) ==
    IF Len(seq) = 0 THEN <<>>
    ELSE LET rest == Pick(SubSeq(seq, 1, Len(seq) - 1), idx)
         IN  IF Len(seq) \in idx THEN Append(rest, seq[Len(seq)]) ELSE rest

Exports ==
    {Pick(RefPool, idx) : idx \in {s \in SUBSET (1..Len(RefPool)) : Cardinality(s) <= MaxRecords}}

Rosters ==
    UNION {{[i \in 1..n |-> [Name |-> NamePool[i], personId |-> ids[i]]] :
                ids \in [1..n -> IdPool]} : n \in 0..MaxRoster}

(* ------------------------------- state --------------------------------- *)
VARIABLES pc, competitors, wca_df, processed, formatted, colsorted, final_df, csv

vars == <<pc, competitors, wca_df, processed, formatted, colsorted, final_df, csv>>

(* ------------------- step 3: match ids and pivot ----------------------- *)
\* wca_df[wca_df["personId"] == wca_id]
person_data(df, wca_id) == SelectSeq(df, LAMBDA r : r.personId = wca_id)

\* "if not wca_id": None and the empty string are both falsy.
Falsy(wca_id) == wca_id = None \/ wca_id[1] = ""

\* Variant: the "person_data.empty" guard is left out.
Reconciled_NoEmptyGuard(competitor, df) == ~Falsy(competitor.personId)

\* The competitor passes both "continue" guards of the loop.
Reconciled(competitor, df) ==
    /\ ~Falsy(competitor.personId)
    /\ Len(person_data(df, competitor.personId[1])) > 0

\* Variant: a pivot that tolerates duplicate entries (as pivot_table does).
DuplicateEntries_Tolerated(pdata) == FALSE

\* DataFrame.pivot raises ValueError ("Index contains duplicate entries,
\* cannot reshape") when two rows share the (index, columns) pair.
DuplicateEntries(pdata) ==
    \E i, j \in 1..Len(pdata) : i # j /\ pdata[i].eventId = pdata[j].eventId

\* The unique eventId values of the pivoted rows, sorted (the column level
\* that unstack builds).
Events(pdata) ==
    LET firsts == SelectSeq([i \in 1..Len(pdata) |-> i],
                            LAMBDA i : \A j \in 1..(i - 1) : pdata[j].eventId # pdata[i].eventId)
    IN  sorted([k \in 1..Len(firsts) |-> pdata[firsts[k]].eventId])

\* The row of pdata that fills the cell of event e.
RecordOf(pdata, e) ==
    pdata[CHOOSE i \in 1..Len(pdata) :
            /\ pdata[i].eventId = e
            /\ \A j \in (i + 1)..Len(pdata) : pdata[j].eventId # e]

\* pivot(index="personId", columns="eventId", values=["best", "worldRank"]),
\* the flattening of the column labels to "{event}_{value}", reset_index and
\* insert(0, "Name", name): a one-row frame.
person_pivoted(name, wca_id, pdata) ==
    LET events == Events(pdata)
        n == Len(events)
        valueCols == [i \in 1..(2 * n) |->
                        IF i <= n THEN events[i] \o "_" \o "best"
                        ELSE events[i - n] \o "_" \o "worldRank"]
        values == [i \in 1..(2 * n) |->
                        IF i <= n THEN Num(RecordOf(pdata, events[i]).best)
                        ELSE Num(RecordOf(pdata, events[i - n]).worldRank)]
        cols == <<"Name", "personId">> \o valueCols
        row == [c \in ToSet(cols) |->
                    IF c = "Name" THEN Str(name)
                    ELSE IF c = "personId" THEN Str(wca_id)
                    ELSE values[IndexOf(valueCols, c)]]
    IN  DataFrame(cols, <<row>>)

RECURSIVE UnionColumns(_)
\* The column labels of the frames in order of first appearance.
UnionColumns(frames) ==
    IF Len(frames) = 0 THEN <<>>
    ELSE LET before == UnionColumns(SubSeq(frames, 1, Len(frames) - 1))
         IN  before \o SelectSeq(frames[Len(frames)].columns,
                                  LAMBDA c : c \notin ToSet(before))

\* Variant: a missing column is filled with 0.
Reindex_ZeroFill(row, cols) ==
    [c \in ToSet(cols) |-> IF c \in DOMAIN row THEN row[c] ELSE Num(0)]

\* A row widened to the given columns; a column it lacks holds NaN.
Reindex(row, cols) ==
    [c \in ToSet(cols) |-> IF c \in DOMAIN row THEN row[c] ELSE NaN]

RECURSIVE ConcatRows(_, _)
ConcatRows(frames, cols) ==
    IF Len(frames) = 0 THEN <<>>
    ELSE LET f == frames[Len(frames)]
         IN  ConcatRows(SubSeq(frames, 1, Len(frames) - 1), cols)
                \o [i \in 1..Len(f.rows) |-> Reindex(f.rows[i], cols)]

\* pd.concat(results, ignore_index=True): outer join of the columns.
concat(frames) ==
    LET cols == UnionColumns(frames)
    IN  DataFrame(cols, ConcatRows(frames, cols))

\* pd.DataFrame(columns=["Name", "personId"])
EmptyFrame == DataFrame(<<"Name", "personId">>, <<>>)

RECURSIVE PivotAll(_, _)
\* The loop of process_competitor_data over the roster: the list "results",
\* or the ValueError of the first pivot that finds duplicate entries.
PivotAll(roster, df) ==
    IF Len(roster) = 0 THEN [raised |-> FALSE, results |-> <<>>]
    ELSE LET before == PivotAll(SubSeq(roster, 1, Len(roster) - 1), df)
             competitor == roster[Len(roster)]
             pdata == person_data(df, competitor.personId[1])
         IN  IF before.raised THEN before
             ELSE IF ~Reconciled(competitor, df) THEN before
             ELSE IF DuplicateEntries(pdata)
                  THEN [raised |-> TRUE, results |-> <<>>]
             ELSE [raised |-> FALSE,
                   results |-> Append(before.results,
                        person_pivoted(competitor.Name, competitor.personId[1], pdata))]

\* Variant: no "if results" branch; pd.concat of an empty list raises.
process_competitor_data_NoEmptyCase(roster, df) ==
    LET loop == PivotAll(roster, df)
    IN  IF loop.raised \/ Len(loop.results) = 0 THEN [raised |-> TRUE, df |-> NoFrame]
        ELSE [raised |-> FALSE, df |-> concat(loop.results)]

process_competitor_data(roster, df) ==
    LET loop == PivotAll(roster, df)
    IN  IF loop.raised THEN [raised |-> TRUE, df |-> NoFrame]
        ELSE IF Len(loop.results) > 0
             THEN [raised |-> FALSE, df |-> concat(loop.results)]
        ELSE [raised |-> FALSE, df |-> EmptyFrame]

(* ------------------- step 4: format the "best" columns ----------------- *)
\* Variant: truncation instead of rounding.
RoundDown(x, d) == x \div d

\* x / d rounded to the nearest integer, a tie going to the even one (what
\* numpy's round does), for x >= 0.
RoundHalfEven(x, d) ==
    LET q == x \div d
        r == x % d
    IN  IF 2 * r > d \/ (2 * r = d /\ q % 2 = 1) THEN q + 1 ELSE q

\* .div(100).round(1) on one cell: a number is rescaled and rounded to one
\* decimal; NaN stays NaN.
DivRound(cell) ==
    IF cell.kind = "num"
    THEN [kind |-> "num", s |-> "", t |-> RoundHalfEven(cell.t, Divisor)]
    ELSE cell

\* [col for col in df.columns if "best" in col]
best_cols(df) == SelectSeq(df.columns, LAMBDA col : Contains(col, "best"))

format_best_columns(df) ==
    LET cols == ToSet(best_cols(df))
    IN  DataFrame(df.columns,
                  [i \in 1..Len(df.rows) |->
                      [c \in DOMAIN df.rows[i] |->
                          IF c \in cols THEN DivRound(df.rows[i][c]) ELSE df.rows[i][c]]])

(* ------------------- step 5: order the columns ------------------------- *)
fixed_cols == <<"Name", "personId">>

\* Variant: the remaining columns are not sorted.
sort_columns_custom_Unsorted(df) ==
    DataFrame(fixed_cols \o SelectSeq(df.columns, LAMBDA col : col \notin ToSet(fixed_cols)),
              df.rows)

sort_columns_custom(df) ==
    LET other_cols == sorted(SelectSeq(df.columns, LAMBDA col : col \notin ToSet(fixed_cols)))
    IN  DataFrame(fixed_cols \o other_cols, df.rows)

(* ------------------- step 6: order the rows ---------------------------- *)
\* The orders an argsort of unspecified stability can give to the rows idx:
\* ascending by the key column, equal keys in any order.
ArgSorts(rws, by, idx) ==
    LET k == Cardinality(idx)
    IN  {p \in [1..k -> idx] :
            /\ \A i, j \in 1..k : i # j => p[i] # p[j]
            /\ \A i \in 1..(k - 1) : rws[p[i]][by].t <= rws[p[i + 1]][by].t}

\* Variant: the NaN rows go through the argsort too (as the largest keys), so
\* their order is unspecified.
sort_values_NaNUnordered(df, by) ==
    LET n == Len(df.rows)
        non_nan_idx == {i \in 1..n : ~IsNaN(df.rows[i][by])}
        nan_idx == (1..n) \ non_nan_idx
        k == Cardinality(nan_idx)
    IN  {DataFrame(df.columns, [i \in 1..n |-> df.rows[(p \o q)[i]]]) :
            p \in ArgSorts(df.rows, by, non_nan_idx),
            q \in {f \in [1..k -> nan_idx] : \A i, j \in 1..k : i # j => f[i] # f[j]}}

\* The results of df.sort_values(by=by, na_position="last") with the default
\* sort kind: the rows with a key in argsort order, then the rows whose key
\* is NaN in their original order.
sort_values(df, by) ==
    LET n == Len(df.rows)
        non_nan_idx == {i \in 1..n : ~IsNaN(df.rows[i][by])}
        nan_idx == SelectSeq([i \in 1..n |-> i], LAMBDA i : IsNaN(df.rows[i][by]))
    IN  {DataFrame(df.columns, [i \in 1..n |-> df.rows[(p \o nan_idx)[i]]]) :
            p \in ArgSorts(df.rows, by, non_nan_idx)}

\* Variant: without the column the table is sorted by its last column.
sort_rows_by_333_worldRank_Fallback(df) ==
    IF "333_worldRank" \in ToSet(df.columns)
    THEN sort_values(df, "333_worldRank")
    ELSE sort_values(df, df.columns[Len(df.columns)])

sort_rows_by_333_worldRank(df) ==
    IF "333_worldRank" \in ToSet(df.columns)
    THEN sort_values(df, "333_worldRank")
    ELSE {df}

(* ------------------- step 7: the pipeline ------------------------------ *)
\* to_csv(path, index=False): a header row and one line per row.
to_csv(df, path) == [path |-> path, header |-> df.columns, rows |-> df.rows]

Init ==
    /\ pc = "load"
    /\ competitors = <<>>
    /\ wca_df = <<>>
    /\ processed = NoFrame
    /\ formatted = NoFrame
    /\ colsorted = NoFrame
    /\ final_df = NoFrame
    /\ csv = {}

\* download_wca_data(); wca_df = load_wca_data()
LoadData ==
    /\ pc = "load"
    /\ \E export \in Exports : wca_df' = export
    /\ pc' = "scrape"
    /\ UNCHANGED <<competitors, processed, formatted, colsorted, final_df, csv>>

\* competitors = get_registrations()
GetRegistrations ==
    /\ pc = "scrape"
    /\ \E roster \in Rosters : competitors' = roster
    /\ pc' = "process"
    /\ UNCHANGED <<wca_df, processed, formatted, colsorted, final_df, csv>>

\* final_df = process_competitor_data(competitors, wca_df); the ValueError of
\* a pivot is not caught and ends main.
Process ==
    /\ pc = "process"
    /\ LET out == process_competitor_data(competitors, wca_df)
       IN  IF out.raised
           THEN pc' = "ValueError" /\ processed' = processed
           ELSE pc' = "format" /\ processed' = out.df
    /\ UNCHANGED <<competitors, wca_df, formatted, colsorted, final_df, csv>>

Format ==
    /\ pc = "format"
    /\ formatted' = format_best_columns(processed)
    /\ pc' = "columns"
    /\ UNCHANGED <<competitors, wca_df, processed, colsorted, final_df, csv>>

SortColumns ==
    /\ pc = "columns"
    /\ colsorted' = sort_columns_custom(formatted)
    /\ pc' = "rows"
    /\ UNCHANGED <<competitors, wca_df, processed, formatted, final_df, csv>>

SortRows ==
    /\ pc = "rows"
    /\ \E out \in sort_rows_by_333_worldRank(colsorted) : final_df' = out
    /\ pc' = "save"
    /\ UNCHANGED <<competitors, wca_df, processed, formatted, colsorted, csv>>

Save ==
    /\ pc = "save"
    /\ csv' = csv \cup {to_csv(final_df, OUTPUT_FILE)}
    /\ pc' = "done"
    /\ UNCHANGED <<competitors, wca_df, processed, formatted, colsorted, final_df>>

Next ==
    \/ LoadData
    \/ GetRegistrations
    \/ Process
    \/ Format
    \/ SortColumns
    \/ SortRows
    \/ Save

Spec == Init /\ [][Next]_vars

(* ======================= properties of the pipeline ==================== *)
AfterProcess == pc \in {"format", "columns", "rows", "save", "done"}
AfterFormat == pc \in {"columns", "rows", "save", "done"}
AfterColumns == pc \in {"rows", "save", "done"}
AfterRows == pc \in {"save", "done"}

\* The roster entry carries a usable identity key.
HasIdentity(entry) == entry.personId # None /\ entry.personId[1] # ""

\* The positions of the export rows of the entry's identity.
MatchesOf(entry) ==
    IF HasIdentity(entry)
    THEN {j \in 1..Len(wca_df) : wca_df[j].personId = entry.personId[1]}
    ELSE {}

\* The roster positions that have an identity and at least one export row.
Joined == {i \in 1..Len(competitors) : MatchesOf(competitors[i]) # {}}

\* The export holds at most one row per identity and category.
WellFormed ==
    \A i, j \in 1..Len(wca_df) :
        (wca_df[i].personId = wca_df[j].personId /\ wca_df[i].eventId = wca_df[j].eventId)
            => i = j

\* Some roster entry's export rows hold one category twice.
DuplicateCategory ==
    \E i \in 1..Len(competitors) :
        \E j, k \in MatchesOf(competitors[i]) :
            j # k /\ wca_df[j].eventId = wca_df[k].eventId

RowsNamed(df, name) == {k \in 1..Len(df.rows) : df.rows[k]["Name"] = Str(name)}

\* C1: the table returned by process_competitor_data has no row for a roster
\* entry without identity key (None or empty) and none for an entry whose
\* identity matches no export row; every row belongs to an entry with an
\* identity and a match, and a skipped entry is never what raises.
C1_JoinExclusivity ==
    /\ AfterProcess =>
          /\ \A i \in 1..Len(competitors) :
                i \notin Joined => RowsNamed(processed, competitors[i].Name) = {}
          /\ \A k \in 1..Len(processed.rows) :
                \E i \in Joined :
                    /\ processed.rows[k]["Name"] = Str(competitors[i].Name)
                    /\ processed.rows[k]["personId"] = Str(competitors[i].personId[1])
    /\ pc = "ValueError" => Joined # {}

C1_Witness ==
    /\ pc = "done"
    /\ \E i \in 1..Len(competitors) : ~HasIdentity(competitors[i])
    /\ \E i \in 1..Len(competitors) :
            HasIdentity(competitors[i]) /\ MatchesOf(competitors[i]) = {}
    /\ Len(processed.rows) = 1

\* C2: when the export rows matched to a roster entry hold one category twice,
\* the pivot raises, main ends in the error and no report is written.
C2_DuplicateFailsFast ==
    (pc \notin {"load", "scrape", "process"} /\ DuplicateCategory)
        => (pc = "ValueError" /\ csv = {})

C2_Witness == pc = "ValueError" /\ DuplicateCategory /\ csv = {}

\* C3: for a well-formed export, process_competitor_data returns one row per
\* joined roster entry in roster order, carrying the name, the identity, the
\* best and the rank of each of its categories, and NaN in every other
\* category column of the table.
C3_OneWideRowPerParticipant ==
    (AfterProcess /\ WellFormed) =>
        LET joined == SelectSeq([i \in 1..Len(competitors) |-> i], LAMBDA i : i \in Joined)
        IN  /\ Len(processed.rows) = Len(joined)
            /\ \A k \in 1..Len(joined) :
                 LET entry == competitors[joined[k]]
                     row == processed.rows[k]
                     own == {wca_df[j].eventId \o "_best" : j \in MatchesOf(entry)}
                              \cup {wca_df[j].eventId \o "_worldRank" : j \in MatchesOf(entry)}
                 IN  /\ DOMAIN row = ToSet(processed.columns)
                     /\ row["Name"] = Str(entry.Name)
                     /\ row["personId"] = Str(entry.personId[1])
                     /\ \A j \in MatchesOf(entry) :
                          /\ wca_df[j].eventId \o "_best" \in DOMAIN row
                          /\ wca_df[j].eventId \o "_worldRank" \in DOMAIN row
                          /\ row[wca_df[j].eventId \o "_best"] = Num(wca_df[j].best)
                          /\ row[wca_df[j].eventId \o "_worldRank"] = Num(wca_df[j].worldRank)
                     /\ \A c \in DOMAIN row :
                          c \notin (own \cup {"Name", "personId"}) => row[c] = NaN

C3_Witness ==
    /\ pc = "done"
    /\ WellFormed
    /\ Len(processed.rows) >= 2
    /\ Cardinality(Joined) < Len(competitors)
    /\ \E k \in 1..Len(processed.rows) : \E c \in DOMAIN processed.rows[k] :
            processed.rows[k][c] = NaN
    /\ \E k \in 1..Len(processed.rows) :
            /\ "333_worldRank" \in DOMAIN processed.rows[k]
            /\ processed.rows[k]["333_worldRank"] = Num(10)

\* The decimal digits of a natural number.
RECURSIVE IntToStr(_)
IntToStr(n) ==
    LET d == SubSeq("0123456789", (n % 10) + 1, (n % 10) + 1)
    IN  IF n < 10 THEN d ELSE IntToStr(n \div 10) \o d

RECURSIVE JoinTokens(_)
JoinTokens(tokens) ==
    IF Len(tokens) = 0 THEN ""
    ELSE IF Len(tokens) = 1 THEN tokens[1]
    ELSE tokens[1] \o ", " \o JoinTokens(Tail(tokens))

\* The digest of one row: "{category} (#{rank})" for the rank columns, in the
\* order of cols, whose value is present and at most 100.
Top100Summary(row, cols) ==
    LET rankCols == SelectSeq(cols, LAMBDA c :
                        /\ EndsWith(c, "_worldRank")
                        /\ row[c].kind = "num"
                        /\ row[c].t <= 10 * 100)
    IN  JoinTokens([k \in 1..Len(rankCols) |->
            SubSeq(rankCols[k], 1, Len(rankCols[k]) - Len("_worldRank"))
                \o " (#" \o IntToStr(row[rankCols[k]].t \div 10) \o ")"])

\* C4: the written report has a third column 'WR Top 100' holding, per row,
\* the tokens '{category} (#{rank})' of the rank columns whose value is
\* present and at most 100, joined with ', ' in column order (the empty
\* string when there is none).
C4_SummaryColumn ==
    pc = "done" =>
        \A file \in csv :
            /\ Len(file.header) >= 3
            /\ file.header[3] = "WR Top 100"
            /\ \A k \in 1..Len(file.rows) :
                    file.rows[k]["WR Top 100"]
                        = Str(Top100Summary(file.rows[k],
                                SelectSeq(file.header, LAMBDA c : c # "WR Top 100")))

\* C5: format_best_columns changes no cell outside the columns with the
\* _best suffix: rank columns and the identity columns come out as they
\* went in, whatever the category codes are.
C5_FormatTouchesOnlyBest ==
    AfterFormat =>
        /\ formatted.columns = processed.columns
        /\ Len(formatted.rows) = Len(processed.rows)
        /\ \A k \in 1..Len(processed.rows) :
                \A c \in DOMAIN processed.rows[k] :
                    ~EndsWith(c, "_best") => formatted.rows[k][c] = processed.rows[k][c]

\* C6: after format_best_columns every present cell of a _best column is its
\* input divided by 100 and rounded to one decimal (a nearest one-decimal
\* number), and every cell that was NaN is still NaN.
C6_BestScaledAndRounded ==
    AfterFormat =>
        \A k \in 1..Len(processed.rows) :
            \A c \in DOMAIN processed.rows[k] :
                EndsWith(c, "_best") =>
                    LET in == processed.rows[k][c]
                        out == formatted.rows[k][c]
                        diff == Divisor * out.t - in.t
                    IN  IF IsNaN(in) THEN out = NaN
                        ELSE /\ out.kind = "num"
                             /\ 2 * diff <= Divisor
                             /\ 2 * diff >= -Divisor

C6_Witness ==
    /\ pc = "done"
    /\ \E k \in 1..Len(processed.rows) : \E c \in DOMAIN processed.rows[k] :
            EndsWith(c, "_best") /\ IsNaN(processed.rows[k][c]) /\ IsNaN(formatted.rows[k][c])
    /\ \E k \in 1..Len(processed.rows) :
            /\ "444_best" \in DOMAIN processed.rows[k]
            /\ processed.rows[k]["444_best"] = Num(9999)
            /\ formatted.rows[k]["444_best"].t = 1000
    /\ \E k \in 1..Len(processed.rows) :
            /\ "222_best" \in DOMAIN processed.rows[k]
            /\ processed.rows[k]["222_best"] = Num(835)
            /\ formatted.rows[k]["222_best"].t = 84

Reverse(seq) == [i \in 1..Len(seq) |-> seq[Len(seq) + 1 - i]]

Rotate(seq) == IF Len(seq) = 0 THEN seq ELSE Tail(seq) \o <<Head(seq)>>

HasRankColumn(df) == "333_worldRank" \in ToSet(df.columns)

\* C7: sort_rows_by_333_worldRank returns the same rows, ascending by
\* 333_worldRank, the rows without a value after all rows with one and in
\* the relative order they had before.
C7_RowsSortedMissingLast ==
    (AfterRows /\ HasRankColumn(colsorted)) =>
        LET n == Len(colsorted.rows)
            key(df, i) == df.rows[i]["333_worldRank"]
        IN  /\ final_df.columns = colsorted.columns
            /\ Len(final_df.rows) = n
            /\ \E p \in [1..n -> 1..n] :
                 /\ \A i, j \in 1..n : i # j => p[i] # p[j]
                 /\ \A i \in 1..n : final_df.rows[i] = colsorted.rows[p[i]]
                 /\ \A i, j \in 1..n :
                        (i < j /\ IsNaN(key(final_df, i)) /\ IsNaN(key(final_df, j)))
                            => p[i] < p[j]
            /\ \A i, j \in 1..n :
                 (i < j /\ ~IsNaN(key(final_df, j))) =>
                    /\ ~IsNaN(key(final_df, i))
                    /\ key(final_df, i).t <= key(final_df, j).t

C7_Witness ==
    /\ pc = "done"
    /\ HasRankColumn(colsorted)
    /\ Len(colsorted.rows) = 3
    /\ IsNaN(colsorted.rows[1]["333_worldRank"])
    /\ ~IsNaN(colsorted.rows[2]["333_worldRank"])
    /\ IsNaN(colsorted.rows[3]["333_worldRank"])
    /\ final_df.rows = <<colsorted.rows[2], colsorted.rows[1], colsorted.rows[3]>>

\* C8: sort_columns_custom keeps the columns and the rows and lays the columns
\* out as Name, personId, then the rest in ascending lexicographic order; the
\* same column set met in another order gives the same layout.
C8_ColumnLayout ==
    AfterColumns =>
        LET cols == colsorted.columns
            n == Len(cols)
        IN  /\ n = Len(formatted.columns)
            /\ ToSet(cols) = ToSet(formatted.columns)
            /\ colsorted.rows = formatted.rows
            /\ cols[1] = "Name"
            /\ cols[2] = "personId"
            /\ \A i \in 3..(n - 1) : StrLess(cols[i], cols[i + 1])
            /\ sort_columns_custom(DataFrame(Reverse(formatted.columns), formatted.rows)).columns
                    = cols
            /\ sort_columns_custom(DataFrame(Rotate(formatted.columns), formatted.rows)).columns
                    = cols

C8_Witness ==
    /\ pc = "done"
    /\ Len(formatted.columns) >= 6
    /\ colsorted.columns # formatted.columns
    /\ \E i \in 3..(Len(formatted.columns) - 1) :
            StrLess(formatted.columns[i + 1], formatted.columns[i])

\* C9: when no roster entry is joined, process_competitor_data returns the
\* frame with the columns Name and personId and no rows, nothing raises, and
\* format, column order and row order each leave exactly that frame.
C9_EmptyReport ==
    (Joined = {} /\ pc \notin {"load", "scrape", "process"}) =>
        LET empty == DataFrame(<<"Name", "personId">>, <<>>)
        IN  /\ pc # "ValueError"
            /\ processed = empty
            /\ AfterFormat => formatted = empty
            /\ AfterColumns => colsorted = empty
            /\ AfterRows => final_df = empty
            /\ pc = "done" => csv = {to_csv(empty, OUTPUT_FILE)}

C9_Witness ==
    /\ pc = "done"
    /\ Joined = {}
    /\ Len(competitors) >= 2
    /\ Len(wca_df) >= 1
    /\ final_df = DataFrame(<<"Name", "personId">>, <<>>)

\* C10: when the table has no 333_worldRank column, sort_rows_by_333_worldRank
\* returns it with its rows and their order unchanged and nothing raises.
C10_NoRankColumnUnsorted ==
    (AfterRows /\ ~HasRankColumn(colsorted)) => final_df = colsorted

C10_Witness ==
    /\ pc = "done"
    /\ ~HasRankColumn(colsorted)
    /\ Len(colsorted.rows) >= 2
    /\ final_df = colsorted
    /\ "222_worldRank" \in ToSet(colsorted.columns)
    /\ colsorted.rows[1]["222_worldRank"].t > colsorted.rows[2]["222_worldRank"].t

====
